---- MODULE Spec2Model ----
(***************************************************************************)
(* A model of timeline.py: the rain-rate timeline built from radar images. *)
(*                                                                         *)
(*   SpecGen       the timestamp generator of plot_timeline (lines 67-78)  *)
(*   SpecClassify  count_color_pixels applied to small pixel arrays        *)
(*   SpecProcess   process_image applied to one response                   *)
(*   Spec          the sampling, aggregation and render stages of          *)
(*                 plot_timeline (lines 80-124), process_image included    *)
(*                                                                         *)
(* Representation.                                                         *)
(*   datetime   [day, hour, minute, second, microsecond]; day is the       *)
(*              proleptic ordinal of the date (datetime.toordinal()), the  *)
(*              UTC+8 offset is fixed, so civil time has no jumps.         *)
(*   hex colour the characters of the string, "#" first, each hex digit    *)
(*              written as its value 0..15.                                *)
(*   pixel      <<r, g, b, a>>, every channel in 0..255 (uint8, RGBA).     *)
(*   img_array  the pixels of the array as a sequence of runs [px, n], n   *)
(*              pixels of value px; the classifier sums over the pixels,   *)
(*              so their positions in the array are not kept.              *)
(*   image      [size, bg, rects]: a width x height raster of colour bg    *)
(*              on which disjoint rectangles [box, px] are painted.        *)
(*   float      a coordinate x of the crop box is held as the integer 2x;  *)
(*              an area value count / 1765.2936237 as [num, den].          *)
(***************************************************************************)
EXTENDS Integers, Sequences, FiniteSets, TLC

VARIABLES
    pc,                      \* position in the function being run
    now,                     \* plot_timeline: now
    timestamps,              \* plot_timeline: timestamps
    urls,                    \* plot_timeline: urls
    color_counts_over_time,  \* plot_timeline: the list being built at line 83
    valid_timestamps,        \* plot_timeline: valid_timestamps
    data,                    \* plot_timeline: data, the list of traces
    fig,                     \* plot_timeline: the figure shown
    raised,                  \* the exception that left plot_timeline, or "none"
    response,                \* process_image: what requests.get(url) meets
    frame,                   \* process_image: the outcome and locals of its latest call
    log,                     \* stdout: the lines printed by process_image
    img_array,               \* count_color_pixels: img_array
    colors,                  \* count_color_pixels: colors
    counts                   \* count_color_pixels: the returned list

vars == <<pc, now, timestamps, urls, color_counts_over_time, valid_timestamps,
          data, fig, raised, response, frame, log, img_array, colors, counts>>

\* The variables of plot_timeline after its timestamps, of process_image and
\* of count_color_pixels.
plotVars     == <<urls, color_counts_over_time, valid_timestamps, data, fig, raised>>
processVars  == <<response, frame, log>>
classifyVars == <<img_array, colors, counts>>

\* None, as a value that can be told from a list of counts.
None == <<"None">>

\* The values of the variables a specification does not use.
PlotIdle ==
    /\ urls = <<>>
    /\ color_counts_over_time = <<>>
    /\ valid_timestamps = <<>>
    /\ data = <<>>
    /\ fig = None
    /\ raised = "none"

\* Before process_image is first called there is no frame: a record with
\* None for its url.
NoCall ==
    [ url |-> None, response |-> None, value |-> None, exc |-> "none",
      printed |-> <<>>, box |-> None, pixel_box |-> None ]

ProcessIdle == response = None /\ frame = NoCall /\ log = <<>>

ClassifyIdle == img_array = <<>> /\ colors = <<>> /\ counts = None

-----------------------------------------------------------------------------
(* Bounds of the model.                                                    *)

\* The sampling stage is run on the MaxSamples newest timestamps at most.
MaxSamples == 3

\* The arrays handed to count_color_pixels in SpecClassify hold at most
\* MaxPixels runs.
MaxPixels == 2

-----------------------------------------------------------------------------
(* Sequence helpers.                                                       *)

RECURSIVE SumSeq(_)
SumSeq(s) == IF s = <<>> THEN 0 ELSE Head(s) + SumSeq(Tail(s))

\* s[i:j] of Python, i and j counted from 0.
Slice(s, i, j) == SubSeq(s, i + 1, j)

-----------------------------------------------------------------------------
(* The band table.                                                         *)

\* colors_to_extract: an insertion-ordered dict, rate -> "#rrggbb".
colors_to_extract ==
    << [rate |-> ">300",      color |-> <<"#", 14, 13,  0,  0, 15,  0>>],  \* #ed00f0
       [rate |-> "200-300",   color |-> <<"#", 12,  3,  0,  0,  6, 10>>],  \* #c3006a
       [rate |-> "150-200",   color |-> <<"#", 13, 12,  0,  2,  0,  1>>],  \* #dc0201
       [rate |-> "100-150",   color |-> <<"#", 15,  0,  0,  0,  0,  0>>],  \* #f00000
       [rate |-> "75-100",    color |-> <<"#", 14, 13,  8,  2,  0,  2>>],  \* #ed8202
       [rate |-> "50-75",     color |-> <<"#", 14, 14, 11,  0,  0,  0>>],  \* #eeb000
       [rate |-> "30-50",     color |-> <<"#", 15, 10, 13, 10,  0,  4>>],  \* #fada04
       [rate |-> "15-30",     color |-> <<"#", 14,  1, 12, 15,  0,  0>>],  \* #e1cf00
       [rate |-> "10-15",     color |-> <<"#",  8, 15, 15, 15,  0,  0>>],  \* #8fff00
       [rate |-> "7-10",      color |-> <<"#",  0,  1, 15,  9,  0,  8>>],  \* #01f908
       [rate |-> "5-7",       color |-> <<"#",  0,  1, 15,  8,  0,  8>>],  \* #01f808
       [rate |-> "3-5",       color |-> <<"#",  0,  0, 13,  0,  0,  2>>],  \* #00d002
       [rate |-> "2-3",       color |-> <<"#",  0,  1, 10,  8,  3,  5>>],  \* #01a835
       [rate |-> "1-2",       color |-> <<"#",  0,  0,  8,  4,  4,  8>>],  \* #008448
       [rate |-> "0.50-1",    color |-> <<"#",  3, 11,  9,  6, 15, 15>>],  \* #3b96ff
       [rate |-> "0.15-0.50", color |-> <<"#",  0,  0,  8, 15, 15,  5>>] >> \* #008ff5

\* int(digits, 16) for a string of hex digits.
RECURSIVE int16(_)
int16(digits) ==
    IF digits = <<>> THEN 0
    ELSE 16 * int16(SubSeq(digits, 1, Len(digits) - 1)) + digits[Len(digits)]

\* tuple(int(color[i:i+2], 16) for i in (1, 3, 5))
HexToRgb(color) ==
    << int16(Slice(color, 1, 3)), int16(Slice(color, 3, 5)), int16(Slice(color, 5, 7)) >>

\* colors_to_extract_rgb: the same dict, rate -> (r, g, b).
colors_to_extract_rgb ==
    [k \in DOMAIN colors_to_extract |->
        [rate |-> colors_to_extract[k].rate,
         color |-> HexToRgb(colors_to_extract[k].color)]]

NBands == Len(colors_to_extract)

-----------------------------------------------------------------------------
(* datetime arithmetic, as datetime.py does it.                            *)

DateTime(d, h, m, s, us) ==
    [day |-> d, hour |-> h, minute |-> m, second |-> s, microsecond |-> us]

\* The seconds since midnight of a datetime.
SecondsOfDay(dt) == dt.hour * 3600 + dt.minute * 60 + dt.second

\* dt + timedelta(seconds = secs), secs of either sign: the date and the
\* time of day are rebuilt from the day count and the seconds by divmod.
PlusSeconds(dt, secs) ==
    LET total == SecondsOfDay(dt) + secs
        rem   == total % 86400
    IN  DateTime(dt.day + (total \div 86400),
                 rem \div 3600, (rem % 3600) \div 60, rem % 60, dt.microsecond)

\* dt - timedelta(hours = h)
MinusHours(dt, h) == PlusSeconds(dt, 0 - h * 3600)

\* dt + timedelta(minutes = m)
PlusMinutes(dt, m) == PlusSeconds(dt, m * 60)

\* dt.replace(minute=0, second=0, microsecond=0)
ReplaceToHour(dt) == DateTime(dt.day, dt.hour, 0, 0, 0)

\* a < b and a <= b on datetimes of one timezone: the field tuples compared.
DtLess(a, b) ==
    LET fa == <<a.day, a.hour, a.minute, a.second, a.microsecond>>
        fb == <<b.day, b.hour, b.minute, b.second, b.microsecond>>
    IN  \E i \in 1..5 : fa[i] < fb[i] /\ \A j \in 1..(i - 1) : fa[j] = fb[j]

DtLeq(a, b) == a = b \/ DtLess(a, b)

-----------------------------------------------------------------------------
(* The timestamp generator: plot_timeline, lines 67-78.                    *)

\* intervals = [0, 6, 12, 18, 24, 30, 36, 42, 48, 54]
intervals == <<0, 6, 12, 18, 24, 30, 36, 42, 48, 54>>

\* range(3)
HourOffsets == <<0, 1, 2>>

\* if timestamp <= now  (a faulty variant keeps only timestamp < now)
KeepStrict(timestamp, t) == DtLess(timestamp, t)

Keep(timestamp, t) == DtLeq(timestamp, t)

\* The timestamps in the order the two nested loops append them.
Appended(t) ==
    LET n == Len(intervals)
        candidate(i) ==
            LET hour_offset == HourOffsets[((i - 1) \div n) + 1]
                minute      == intervals[((i - 1) % n) + 1]
                hour        == ReplaceToHour(MinusHours(t, hour_offset))
            IN  PlusMinutes(hour, minute)
        all == [i \in 1..(Len(HourOffsets) * n) |-> candidate(i)]
    IN  SelectSeq(all, LAMBDA timestamp : Keep(timestamp, t))

\* list.sort(reverse=True): a stable sort into descending order.
RECURSIVE InsertDesc(_, _)
InsertDesc(sorted, x) ==
    IF sorted = <<>> THEN <<x>>
    ELSE IF DtLess(Head(sorted), x) THEN <<x>> \o sorted
    ELSE <<Head(sorted)>> \o InsertDesc(Tail(sorted), x)

RECURSIVE SortFrom(_, _)
SortFrom(sorted, rest) ==
    IF rest = <<>> THEN sorted
    ELSE SortFrom(InsertDesc(sorted, Head(rest)), Tail(rest))

\* (a faulty variant leaves the list in the order it was appended)
SortOmitted(s) == s

SortReverse(s) == SortFrom(<<>>, s)

\* timestamps after line 78.
GenTimestamps(t) == SortReverse(Appended(t))

\* The instants "now" is drawn from: hours at both ends of a day and in its
\* middle, every minute of the hour, the first and the last microsecond of
\* the first and the last second of the minute.
GenNows ==
    { DateTime(739000, h, m, s, us) :
        h \in {0, 1, 2, 13, 23}, m \in 0..59, s \in {0, 59}, us \in {0, 999999} }

InitGen ==
    /\ pc = "start"
    /\ now \in GenNows
    /\ timestamps = <<>>
    /\ PlotIdle
    /\ ProcessIdle
    /\ ClassifyIdle

\* Lines 70-78.
Generate ==
    /\ pc = "start"
    /\ timestamps' = GenTimestamps(now)
    /\ pc' = "generated"
    /\ UNCHANGED <<now, plotVars, processVars, classifyVars>>

NextGen == Generate

SpecGen == InitGen /\ [][NextGen]_vars

-----------------------------------------------------------------------------
(* The pixel classifier: count_color_pixels, lines 37-44.                  *)

\* tolerance=30, the default of the parameter.
Tolerance == 30

\* img_array[..., :3] - color_array, then np.abs.  The image is uint8 and
\* color_array is np.array of a tuple of ints, an int64 array, so the
\* difference is taken in int64.  (A faulty variant takes it in uint8, where it
\* wraps modulo 256 and np.abs changes nothing.)
AbsDiffUint8(v, c) == (v - c) % 256

AbsDiff(v, c) == IF v - c < 0 THEN 0 - (v - c) ELSE v - c

\* diff <= tolerance  (a faulty variant: diff < tolerance)
WithinStrict(diff, tolerance) == diff < tolerance

Within(diff, tolerance) == diff <= tolerance

\* np.all(diff <= tolerance, axis=-1) at one pixel: the first three channels.
MaskAt(px, color, tolerance) ==
    \A ch \in 1..3 : Within(AbsDiff(px[ch], color[ch]), tolerance)

\* np.sum(mask): the number of pixels of the array the mask holds.
SumMask(array, color, tolerance) ==
    SumSeq([i \in DOMAIN array |->
              IF MaskAt(array[i].px, color, tolerance) THEN array[i].n ELSE 0])

\* One turn of the loop for the k-th value of the dict: counts.append(...).
\* (A faulty variant counts a pixel for the first band it matches only.)
AppendCountExclusive(acc, array, table, k, tolerance) ==
    Append(acc,
        SumSeq([i \in DOMAIN array |->
                  IF /\ MaskAt(array[i].px, table[k].color, tolerance)
                     /\ \A j \in 1..(k - 1) :
                            ~MaskAt(array[i].px, table[j].color, tolerance)
                  THEN array[i].n ELSE 0]))

AppendCount(acc, array, table, k, tolerance) ==
    Append(acc, SumMask(array, table[k].color, tolerance))

RECURSIVE CountLoop(_, _, _, _, _)
CountLoop(acc, array, table, k, tolerance) ==
    IF k > Len(table) THEN acc
    ELSE CountLoop(AppendCount(acc, array, table, k, tolerance),
                   array, table, k + 1, tolerance)

count_color_pixels(array, table, tolerance) ==
    CountLoop(<<>>, array, table, 1, tolerance)

\* The pixels the arrays of SpecClassify are made of.
TestPixels ==
    { \* around "75-100", (237, 130, 2)
      <<237, 130,   2, 255>>, <<237, 130,   2,   0>>,
      <<207, 100,  32, 255>>,                            \* 30 off in all three
      <<206, 130,   2, 255>>, <<237,  99,   2, 255>>,    \* 31 below
      <<237, 160,   2, 255>>, <<237, 161,   2, 255>>,    \* 30 and 31 above
      <<237, 130,  33, 255>>,
      \* around "7-10", (1, 249, 8), and "5-7", (1, 248, 8)
      <<  1, 249,   8, 255>>, <<  1, 219,   8, 255>>, <<  1, 218,   8, 255>>,
      <<  1, 217,   8, 255>>, << 31, 218,  38, 255>>, << 32, 218,   8, 255>>,
      <<  1, 218,  39, 255>>, << 31, 255,  38, 255>>, << 32, 255,   8, 255>>,
      \* within tolerance of "30-50" and of "15-30"
      <<250, 218,   4, 255>>,
      \* around "0.50-1", (59, 150, 255): 30 below, 31 below, 255 below
      << 59, 150, 225, 255>>, << 59, 150, 224, 255>>, << 59, 150,   0, 255>>,
      \* no band
      <<  0,   0,   0, 255>>, <<  0,   0,   0,   0>>, <<255, 255, 255, 255>> }

TestRuns ==
    { [px |-> p, n |-> 1] : p \in TestPixels }
    \cup { [px |-> p, n |-> 3] :
             p \in { <<1, 249, 8, 255>>, <<1, 218, 8, 255>>, <<206, 130, 2, 255>> } }

TestArrays == UNION { [1..len -> TestRuns] : len \in 1..MaxPixels }

\* The dicts count_color_pixels is applied to: the table of the program, the
\* same entries in reverse order, and three of them in another order.
ColorTables ==
    { colors_to_extract_rgb,
      [k \in 1..NBands |-> colors_to_extract_rgb[NBands + 1 - k]],
      << colors_to_extract_rgb[12], colors_to_extract_rgb[11],
         colors_to_extract_rgb[10] >> }

InitClassify ==
    /\ pc = "start"
    /\ img_array \in TestArrays
    /\ colors \in ColorTables
    /\ counts = None
    /\ now = None
    /\ timestamps = <<>>
    /\ PlotIdle
    /\ ProcessIdle

\* Lines 37-44.
Classify ==
    /\ pc = "start"
    /\ counts' = count_color_pixels(img_array, colors, Tolerance)
    /\ pc' = "counted"
    /\ UNCHANGED <<now, timestamps, plotVars, processVars, img_array, colors>>

NextClassify == Classify

SpecClassify == InitClassify /\ [][NextClassify]_vars

-----------------------------------------------------------------------------
(* process_image, lines 46-64.                                             *)

\* The exception classes met here, each with its base class: the requests
\* exceptions derive from RequestException, which is an IOError; PIL's
\* UnidentifiedImageError is an OSError.
BaseOf ==
    [ ConnectionError        |-> "RequestException",
      HTTPError              |-> "RequestException",
      RequestException       |-> "OSError",
      UnidentifiedImageError |-> "OSError",
      OSError                |-> "Exception",
      IndexError             |-> "Exception",
      Exception              |-> "BaseException" ]

RECURSIVE IsInstance(_, _)
IsInstance(exc, cls) ==
    \/ exc = cls
    \/ exc \in DOMAIN BaseOf /\ IsInstance(BaseOf[exc], cls)

\* except (requests.exceptions.RequestException, UnidentifiedImageError)
ExceptClause == {"RequestException", "UnidentifiedImageError"}

Caught(exc) == \E cls \in ExceptClause : IsInstance(exc, cls)

\* The crop window.
CropWidth  == 320
CropHeight == 400

\* Lines 52-56.  A coordinate x is held as 2x, so that / 2 is exact:
\* (left, top, right, bottom), each doubled.
\* (a faulty variant takes bottom from the width of the window)
CropBoxSquare(width, height) ==
    << width - CropWidth, height - CropHeight, width + CropWidth, height + CropWidth >>

CropBox(width, height) ==
    << width - CropWidth, height - CropHeight, width + CropWidth, height + CropHeight >>

\* int(round(x)) for the doubled coordinate x2 = 2x: Python rounds a half
\* to the even neighbour.  Image.crop applies it to each coordinate of the box.
RoundHalfEven(x2) ==
    IF x2 % 2 = 0 THEN x2 \div 2
    ELSE LET below == (x2 - 1) \div 2
         IN  IF below % 2 = 0 THEN below ELSE below + 1

PixelBox(box) == [i \in 1..4 |-> RoundHalfEven(box[i])]

Max(a, b) == IF a >= b THEN a ELSE b
Min(a, b) == IF a <= b THEN a ELSE b

\* The number of pixels two rectangles (x0, y0, x1, y1) share.
Overlap(a, b) ==
    Max(0, Min(a[3], b[3]) - Max(a[1], b[1]))
      * Max(0, Min(a[4], b[4]) - Max(a[2], b[2]))

\* np.array(img.crop(box)): the pixels of the image inside the box, pixel
\* by region; what the box takes in beyond the image is filled with zeros.
CroppedArray(image, pbox) ==
    LET whole   == <<0, 0, image.size[1], image.size[2]>>
        painted == [i \in DOMAIN image.rects |->
                       [px |-> image.rects[i].px,
                        n  |-> Overlap(image.rects[i].box, pbox)]]
        inside  == Overlap(whole, pbox)
        area    == Overlap(pbox, pbox)
        ground  == inside - SumSeq([i \in DOMAIN painted |-> painted[i].n])
    IN  SelectSeq(painted \o << [px |-> image.bg, n |-> ground],
                                [px |-> <<0, 0, 0, 0>>, n |-> area - inside] >>,
                  LAMBDA run : run.n > 0)

\* What process_image did with one response: the value it returned, or the
\* exception it raised; what it printed; and its locals where it got that far.
Outcome(url, resp, value, exc, printed, box, pbox) ==
    [ url |-> url, response |-> resp, value |-> value, exc |-> exc,
      printed |-> printed, box |-> box, pixel_box |-> pbox ]

\* An exception raised inside the try block: caught by line 62, printed and
\* answered with None, or passed on to the caller.
Except(url, resp, exc) ==
    IF Caught(exc)
    THEN Outcome(url, resp, None, "none", << <<"Error processing image from", url, exc>> >>,
                 None, None)
    ELSE Outcome(url, resp, None, exc, <<>>, None, None)

\* A response is [error, status_code, content]: error is the exception
\* requests.get raises, or "none"; content is [format, complete, image].
process_image(url, resp) ==
    IF resp.error # "none"
        THEN Except(url, resp, resp.error)                   \* line 48
    ELSE IF resp.status_code \in 400..599
        THEN Except(url, resp, "HTTPError")                  \* line 49
    ELSE IF resp.content.format \notin {"jpeg", "png"}
        THEN Except(url, resp, "UnidentifiedImageError")     \* line 50
    ELSE IF ~resp.content.complete
        THEN Except(url, resp, "OSError")                    \* line 51: the pixels are decoded here
    ELSE
        LET img  == resp.content.image
            box  == CropBox(img.size[1], img.size[2])
            pbox == PixelBox(box)
            arr  == CroppedArray(img, pbox)
        IN  Outcome(url, resp,
                    count_color_pixels(arr, colors_to_extract_rgb, Tolerance),
                    "none", <<>>, box, pbox)

\* The responses that hold no image.
NoImage == [size |-> <<0, 0>>, bg |-> <<0, 0, 0, 0>>, rects |-> <<>>]

ConnectionFailed ==
    [error |-> "ConnectionError", status_code |-> 0,
     content |-> [format |-> "none", complete |-> FALSE, image |-> NoImage]]
NotFound    == [error |-> "none", status_code |-> 404,
                content |-> [format |-> "html", complete |-> TRUE, image |-> NoImage]]
NotAnImage  == [error |-> "none", status_code |-> 200,
                content |-> [format |-> "html", complete |-> TRUE, image |-> NoImage]]
CutShort    == [error |-> "none", status_code |-> 200,
                content |-> [format |-> "jpeg", complete |-> FALSE, image |-> NoImage]]

FailedResponses == {ConnectionFailed, NotFound, NotAnImage, CutShort}

Delivered(image) ==
    [error |-> "none", status_code |-> 200,
     content |-> [format |-> "jpeg", complete |-> TRUE, image |-> image]]

Black == <<0, 0, 0, 255>>

\* What is painted on the test images; every rectangle lies inside the crop
\* window of every test size but the last, which the window cuts.
Paintings ==
    { <<>>,
      << [box |-> <<200, 250, 215, 303>>, px |-> <<1, 249, 8, 255>>] >>,    \* 795 pixels
      << [box |-> <<200, 250, 228, 278>>, px |-> <<1, 249, 8, 255>>],       \* 784
         [box |-> <<200, 280, 210, 281>>, px |-> <<1, 249, 8, 255>>] >>,    \* + 10 = 794
      << [box |-> <<200, 250, 215, 303>>, px |-> <<237, 0, 240, 255>>],
         [box |-> <<215, 250, 230, 303>>, px |-> <<1, 218, 8, 255>>] >>,
      << [box |-> <<0, 0, 170, 400>>, px |-> <<237, 0, 240, 255>>] >> }

\* The images process_image is applied to in SpecProcess: every width and
\* height from the window's up to 12 more, and twice the window and a little.
ProcessSizes ==
    { <<w, h>> : w \in (CropWidth..(CropWidth + 12)) \cup {640, 641, 643},
                 h \in (CropHeight..(CropHeight + 12)) \cup {800, 801, 803} }

ProcessResponses ==
    FailedResponses
    \cup { Delivered([size |-> sz, bg |-> Black, rects |-> r]) :
             sz \in ProcessSizes, r \in Paintings }

TestUrl == <<"https://www.hko.gov.hk/wxinfo/radars/rad_064_png/2d064nradar_", ".jpg">>

InitProcess ==
    /\ pc = "start"
    /\ response \in ProcessResponses
    /\ frame = NoCall
    /\ log = <<>>
    /\ now = None
    /\ timestamps = <<>>
    /\ PlotIdle
    /\ ClassifyIdle

\* One call of process_image, to its return or to the exception leaving it.
Process ==
    /\ pc = "start"
    /\ frame' = process_image(TestUrl, response)
    /\ log' = log \o frame'.printed
    /\ pc' = IF frame'.exc = "none" THEN "returned" ELSE "raised"
    /\ UNCHANGED <<now, timestamps, plotVars, response, classifyVars>>

NextProcess == Process

SpecProcess == InitProcess /\ [][NextProcess]_vars

-----------------------------------------------------------------------------
(* The sampling, aggregation and render stages of plot_timeline,           *)
(* lines 80-124.                                                           *)

base_url == "https://www.hko.gov.hk/wxinfo/radars/rad_064_png/2d064nradar_"

\* timestamp.strftime("%Y%m%d%H%M"): the date, then the hour and the minute
\* as two digits each; seconds and microseconds are not printed.  The date
\* is left as its ordinal.
Strftime(t) ==
    << t.day, t.hour \div 10, t.hour % 10, t.minute \div 10, t.minute % 10 >>

\* base_url + timestamp.strftime(...) + ".jpg"
Url(t) == << base_url, Strftime(t), ".jpg" >>

\* 1765.2936237, as units + frac / scale.
Calibration == [units |-> 1765, frac |-> 2936237, scale |-> 10000000]

\* 0.45, as num / den.
NoiseFloor == [num |-> 45, den |-> 100]

\* count / 1765.2936237, and the int 0.
AreaValue(count) == [num |-> count, den |-> "1765.2936237"]
Zero == [num |-> 0, den |-> "1"]

\* value >= 0.45 for value = count / 1765.2936237:
\*     den * count >= num * (units + frac / scale),
\* the right side split into its whole part and what is left over.  No
\* count in 0..128000 brings the quotient within 0.0002 of 0.45, so the
\* rounding of the float division plays no part.
AtLeastFloor(value) ==
    LET lhs   == NoiseFloor.den * value.num
        whole == NoiseFloor.num * Calibration.units
                   + (NoiseFloor.num * Calibration.frac) \div Calibration.scale
        rest  == (NoiseFloor.num * Calibration.frac) % Calibration.scale
    IN  lhs > whole \/ (lhs = whole /\ rest = 0)

\* value if value >= 0.45 else 0  (a faulty variant plots the value as it is)
Unfiltered(value) == value

Filtered(value) == IF AtLeastFloor(value) THEN value ELSE Zero

\* The indexes of the samples that did not come back None, in order.
RECURSIVE ValidIndexes(_, _)
ValidIndexes(results, i) ==
    IF i > Len(results) THEN <<>>
    ELSE IF results[i] # None THEN <<i>> \o ValidIndexes(results, i + 1)
    ELSE ValidIndexes(results, i + 1)

\* Lines 89-99 for the i-th entry of colors_to_extract; valid_color_counts
\* is the 2-D array, one row per valid sample.
Trace(i, valid_color_counts, xs) ==
    LET area_values == [j \in DOMAIN valid_color_counts |->
                           AreaValue(valid_color_counts[j][i])]
    IN  [ x    |-> xs,
          y    |-> [j \in DOMAIN area_values |-> Filtered(area_values[j])],
          mode |-> "lines",
          name |-> << colors_to_extract[i].rate, " mm/hr" >>,
          line |-> [color |-> colors_to_extract[i].color] ]

\* The instants "now" is drawn from for these stages.
PlotNows == { DateTime(739000, 0, 7, 30, 0), DateTime(739000, 13, 54, 0, 0) }

\* What a fetch may meet.
PlotResponses ==
    FailedResponses
    \cup { Delivered([size |-> sz, bg |-> Black, rects |-> r]) :
             sz \in { <<640, 800>>, <<643, 803>> }, r \in Paintings }

\* plot_timeline at line 80, its timestamps made: the newest ones of the
\* list the generator makes for now, MaxSamples of them at most.
Init ==
    /\ pc = "urls"
    /\ now \in PlotNows
    /\ \E n \in 1..MaxSamples : timestamps = SubSeq(GenTimestamps(now), 1, n)
    /\ PlotIdle
    /\ ProcessIdle
    /\ ClassifyIdle

\* Lines 80-81.
BuildUrls ==
    /\ pc = "urls"
    /\ urls' = [i \in DOMAIN timestamps |-> Url(timestamps[i])]
    /\ pc' = "sample"
    /\ UNCHANGED <<now, timestamps, color_counts_over_time, valid_timestamps,
                   data, fig, raised, processVars, classifyVars>>

\* Line 83, one element of the list comprehension: process_image(url) for
\* the next url, against whatever the fetch meets.  An exception that
\* process_image lets through leaves plot_timeline too.
ProcessImage ==
    /\ pc = "sample"
    /\ Len(color_counts_over_time) < Len(urls)
    /\ \E resp \in PlotResponses :
          LET out == process_image(urls[Len(color_counts_over_time) + 1], resp)
          IN  /\ response' = resp
              /\ frame' = out
              /\ log' = log \o out.printed
              /\ IF out.exc = "none"
                 THEN /\ color_counts_over_time' =
                             Append(color_counts_over_time, out.value)
                      /\ UNCHANGED <<pc, raised>>
                 ELSE /\ pc' = "raised"
                      /\ raised' = out.exc
                      /\ UNCHANGED color_counts_over_time
    /\ UNCHANGED <<now, timestamps, urls, valid_timestamps, data, fig, classifyVars>>

\* Lines 84-99.  np.array of an empty list has one dimension, and
\* valid_color_counts[:, i] then raises IndexError for the first band.
Aggregate ==
    /\ pc = "sample"
    /\ Len(color_counts_over_time) = Len(urls)
    /\ LET valid == ValidIndexes(color_counts_over_time, 1)
           valid_color_counts == [j \in DOMAIN valid |-> color_counts_over_time[valid[j]]]
           xs == [j \in DOMAIN valid |-> timestamps[valid[j]]]
       IN  /\ valid_timestamps' = xs
           /\ IF valid_color_counts = <<>>
              THEN /\ pc' = "raised"
                   /\ raised' = "IndexError"
                   /\ data' = <<>>
              ELSE /\ pc' = "render"
                   /\ data' = [i \in DOMAIN colors_to_extract |->
                                  Trace(i, valid_color_counts, xs)]
                   /\ UNCHANGED raised
    /\ UNCHANGED <<now, timestamps, urls, color_counts_over_time, fig,
                   processVars, classifyVars>>

\* Lines 101-124.
Render ==
    /\ pc = "render"
    /\ fig' = [ data   |-> data,
                layout |-> [ title  |-> "Rain Rate (mm/h) Trends Over Time",
                             xaxis  |-> [title |-> "Time", tickformat |-> "%H:%M"],
                             yaxis  |-> [title |-> "Square Kilometre of Raining Area"],
                             legend |-> [orientation |-> "h"] ] ]
    /\ pc' = "shown"
    /\ UNCHANGED <<now, timestamps, urls, color_counts_over_time,
                   valid_timestamps, data, raised, processVars, classifyVars>>

Next == BuildUrls \/ ProcessImage \/ Aggregate \/ Render

Spec == Init /\ [][Next]_vars

-----------------------------------------------------------------------------
(* Properties of the timestamp generator (checked under SpecGen).          *)

\* An instant as whole minutes since day 0 and the microseconds within the
\* minute: a reading of the fields that does not go through DtLess.
AbsMinute(t) == t.day * 1440 + t.hour * 60 + t.minute
SubMinute(t) == t.second * 1000000 + t.microsecond
NotAfter(a, b) ==
    \/ AbsMinute(a) < AbsMinute(b)
    \/ AbsMinute(a) = AbsMinute(b) /\ SubMinute(a) <= SubMinute(b)

\* C1: for every now the generated list is strictly descending, holds no
\* duplicate, every entry is at or before now, and every entry sits on one
\* of the ten 6-minute offsets of its hour with zero seconds and microseconds.
C1_TimestampsDescendingAligned ==
    pc = "generated" =>
        /\ \A i \in 1..(Len(timestamps) - 1) :
              /\ NotAfter(timestamps[i + 1], timestamps[i])
              /\ timestamps[i + 1] # timestamps[i]
        /\ \A i, j \in DOMAIN timestamps : i # j => timestamps[i] # timestamps[j]
        /\ \A i \in DOMAIN timestamps :
              /\ NotAfter(timestamps[i], now)
              /\ timestamps[i].minute \in {0, 6, 12, 18, 24, 30, 36, 42, 48, 54}
              /\ timestamps[i].second = 0
              /\ timestamps[i].microsecond = 0

\* A run whose window reaches back into the previous day, from a now that is
\* not itself aligned.
C1_Witness ==
    /\ pc = "generated"
    /\ now.hour = 1 /\ now.minute = 59 /\ now.second = 59 /\ now.microsecond = 999999
    /\ Len(timestamps) = 30
    /\ timestamps[1].day = now.day
    /\ timestamps[30].day = now.day - 1

\* C9: the list is exactly the set of the 6-minute-aligned instants from
\* two hours before the start of now's hour up to now; so it has 21 to 30
\* entries, the newest less than 6 minutes and the oldest less than 3 hours
\* before now.
C9_TimestampsComplete ==
    pc = "generated" =>
        LET hourStart == (AbsMinute(now) \div 60) * 60
            wanted    == { m \in (hourStart - 120)..AbsMinute(now) : m % 6 = 0 }
            last      == Len(timestamps)
        IN  /\ \A i \in DOMAIN timestamps : SubMinute(timestamps[i]) = 0
            /\ { AbsMinute(timestamps[i]) : i \in DOMAIN timestamps } = wanted
            /\ last = Cardinality(wanted)
            /\ last \in 21..30
            /\ AbsMinute(now) - AbsMinute(timestamps[1]) \in 0..5
            /\ AbsMinute(now) - AbsMinute(timestamps[last]) \in 120..179

\* now is itself an aligned instant, the last of its hour: it is the newest
\* entry and the list is full.
C9_Witness ==
    /\ pc = "generated"
    /\ now.minute = 54 /\ now.second = 0 /\ now.microsecond = 0
    /\ Len(timestamps) = 30
    /\ timestamps[1] = now

-----------------------------------------------------------------------------
(* Properties of the classifier (checked under SpecClassify).              *)

\* The reference colours in decimal, read off the hex strings by hand.
ReferenceRgb ==
    << <<237,   0, 240>>, <<195,   0, 106>>, <<220,   2,   1>>, <<240,   0,   0>>,
       <<237, 130,   2>>, <<238, 176,   0>>, <<250, 218,   4>>, <<225, 207,   0>>,
       <<143, 255,   0>>, <<  1, 249,   8>>, <<  1, 248,   8>>, <<  0, 208,   2>>,
       <<  1, 168,  53>>, <<  0, 132,  72>>, << 59, 150, 255>>, <<  0, 143, 245>> >>

\* The pixels of the array whose three colour channels all lie within 30 of
\* ref, the difference taken in the integers.
NearPixels(array, ref) ==
    SumSeq([i \in DOMAIN array |->
              IF \A ch \in 1..3 :
                    /\ array[i].px[ch] - ref[ch] <= 30
                    /\ ref[ch] - array[i].px[ch] <= 30
              THEN array[i].n ELSE 0])

NPixels(array) == SumSeq([i \in DOMAIN array |-> array[i].n])

\* C5: on the band table the classifier returns 16 non-negative integers in
\* band order, entry k the number of pixels within 30 of band k's reference
\* colour in R, G and B, the difference taken without 8-bit wrap-around.
C5_ClassifierCounts ==
    (pc = "counted" /\ colors = colors_to_extract_rgb) =>
        /\ Len(counts) = 16
        /\ \A k \in 1..16 :
              /\ counts[k] \in Nat
              /\ counts[k] = NearPixels(img_array, ReferenceRgb[k])

\* One pixel exactly 30 away from "75-100" in all three channels, below in
\* two of them, and one pixel 31 away: the first is counted, the second not.
C5_Witness ==
    /\ pc = "counted"
    /\ colors = colors_to_extract_rgb
    /\ img_array = << [px |-> <<207, 100, 32, 255>>, n |-> 1],
                      [px |-> <<237, 161, 2, 255>>, n |-> 1] >>
    /\ counts[5] = 1

\* C6: whatever the dict and its order, the entry for a band is the number
\* of pixels within tolerance of that band's own colour; a pixel within
\* tolerance of several bands is counted in each of them.
C6_InclusiveOrderIndependent ==
    pc = "counted" =>
        /\ Len(counts) = Len(colors)
        /\ \A j \in DOMAIN colors :
              counts[j] = NearPixels(img_array, colors[j].color)

\* The table in reverse order, and more counted than there are pixels.
C6_Witness ==
    /\ pc = "counted"
    /\ colors[1].rate = "0.15-0.50"
    /\ Len(colors) = 16
    /\ SumSeq(counts) > NPixels(img_array)
    /\ \E j \in 1..15 : counts[j] > 0 /\ counts[j + 1] > 0

\* The entry of the returned list for the band called rate.
CountOf(rate) ==
    LET k == CHOOSE j \in DOMAIN colors : colors[j].rate = rate IN counts[k]

\* C10: "5-7" counts every pixel "7-10" counts, and the two counts differ
\* by the pixels with green exactly 218, red in 0..31 and blue in 0..38.
C10_OverlappingBands ==
    pc = "counted" =>
        LET onlyLower ==
                SumSeq([i \in DOMAIN img_array |->
                    IF /\ img_array[i].px[2] = 218
                       /\ img_array[i].px[1] \in 0..31
                       /\ img_array[i].px[3] \in 0..38
                    THEN img_array[i].n ELSE 0])
        IN  /\ CountOf("5-7") >= CountOf("7-10")
            /\ CountOf("5-7") - CountOf("7-10") = onlyLower

\* Both bands count something and "5-7" counts more.
C10_Witness ==
    /\ pc = "counted"
    /\ CountOf("7-10") > 0
    /\ CountOf("5-7") > CountOf("7-10")

-----------------------------------------------------------------------------
(* Properties of process_image (checked under SpecProcess).                *)

\* C8: for a source of width W and height H, neither below the window's,
\* the box is left = (W - 320) / 2, top = (H - 400) / 2, right = left + 320,
\* bottom = top + 400; the pixels taken are a 320 x 400 window inside the
\* source, centred to the pixel; for 640 x 800 it is (160, 200)-(480, 600).
C8_CropGeometry ==
    (pc = "returned" /\ frame.value # None) =>
        LET W  == response.content.image.size[1]
            H  == response.content.image.size[2]
            b  == frame.box
            pb == frame.pixel_box
        IN  /\ b[1] = W - 320 /\ b[2] = H - 400
            /\ b[3] = b[1] + 2 * 320 /\ b[4] = b[2] + 2 * 400
            /\ pb[3] - pb[1] = 320 /\ pb[4] - pb[2] = 400
            /\ pb[1] >= 0 /\ pb[2] >= 0 /\ pb[3] <= W /\ pb[4] <= H
            /\ (W - pb[3]) - pb[1] \in {-1, 0, 1}
            /\ (H - pb[4]) - pb[2] \in {-1, 0, 1}
            /\ (W = 640 /\ H = 800) => pb = <<160, 200, 480, 600>>

\* The 640 x 800 source of the spec's example.
C8_Witness ==
    /\ pc = "returned"
    /\ response.content.image.size = <<640, 800>>
    /\ frame.box = <<320, 400, 960, 1200>>
    /\ frame.pixel_box = <<160, 200, 480, 600>>
    /\ frame.value[10] = 795

-----------------------------------------------------------------------------
(* Properties of the sampling and aggregation stages (checked under Spec). *)

\* The samples that came back with counts, in order.
Survivors == ValidIndexes(color_counts_over_time, 1)

\* The sampling stage has run to its end: every url was tried.
Sampled == pc \in {"render", "shown", "raised"} /\ raised # "OSError"

\* C7: a plotted value is count / 1765.2936237 where that is >= 0.45 and 0
\* where it is below.  As 1765 < 1765.2936237 < 1766, the quotient is below
\* 0.45 when 100 * count < 45 * 1765 and at least 0.45 when
\* 100 * count >= 45 * 1766; no whole count lies between the two.
C7_AreaNoiseFloor ==
    pc \in {"render", "shown"} =>
        \A i \in DOMAIN data :
            /\ Len(data[i].y) = Len(Survivors)
            /\ \A j \in DOMAIN data[i].y :
                  LET count == color_counts_over_time[Survivors[j]][i]
                      y     == data[i].y[j]
                  IN  /\ 100 * count >= 45 * 1766 => y = [num |-> count, den |-> "1765.2936237"]
                      /\ 100 * count <  45 * 1765 => y = [num |-> 0, den |-> "1"]
                      /\ 100 * count >= 45 * 1766 \/ 100 * count < 45 * 1765
                      /\ y.num = 0 \/ (100 * y.num >= 45 * 1765 /\ y.den = "1765.2936237")

\* A chart with a count of 795 plotted as it is and a count of 794 plotted
\* as 0, in one series.
C7_Witness ==
    /\ pc = "shown"
    /\ \E j, k \in DOMAIN data[10].y :
          /\ color_counts_over_time[Survivors[j]][10] = 795
          /\ data[10].y[j].num = 795
          /\ color_counts_over_time[Survivors[k]][10] = 794
          /\ data[10].y[k].num = 0

\* The series of the chart are aligned with the surviving samples.
SeriesAligned ==
    /\ Len(data) = 16
    /\ \A i \in DOMAIN data :
          /\ Len(data[i].x) = Len(Survivors)
          /\ Len(data[i].y) = Len(Survivors)
          /\ \A j \in DOMAIN Survivors :
                /\ data[i].x[j] = timestamps[Survivors[j]]
                /\ data[i].y[j].num \in {0, color_counts_over_time[Survivors[j]][i]}
          /\ \A j \in 1..(Len(data[i].x) - 1) : DtLess(data[i].x[j + 1], data[i].x[j])

\* C2: whatever samples failed, once every url has been tried each of the
\* 16 series has one point per successful sample, the i-th carrying the
\* timestamp and the count of the i-th successful sample, in descending
\* order of time.
C2_SeriesAligned == Sampled => SeriesAligned

\* What does hold: the series are aligned whenever the chart is reached.
C2_AlignedWhenRendered == pc \in {"render", "shown"} => SeriesAligned

\* C3: a response that holds no usable image (no connection, an error
\* status, bytes that are no image, an image cut short) makes process_image
\* print a line and return None instead of raising, and the sampling stage
\* is not left before every url has been tried.
C3_FailuresSwallowed ==
    /\ (frame.url # None /\ response \in FailedResponses) =>
            /\ frame.exc = "none"
            /\ frame.value = None
            /\ Len(frame.printed) = 1
    /\ pc \in {"render", "shown", "raised"} =>
            Len(color_counts_over_time) = Len(urls)

\* C4: whatever samples failed, all of them included, plot_timeline goes on
\* to the render step: no exception leaves it once the urls have been tried.
C4_NoFatalPath == Sampled => raised = "none"

====
